---- MODULE Spec2Model ----
(***************************************************************************)
(* Model of handlers/mw.go: the addctx middleware (status probe, timeout   *)
(* guard, store binding, tenant resolution) and the authorization filters. *)
(***************************************************************************)
EXTENDS Integers, Sequences, FiniteSets, TLC

VARIABLES
    prod,       \* cfg.Prod
    loadSite,   \* addctx's loadSite argument
    dbSites,    \* number of tenants in the store; tenant i has ID i and host i
    req,        \* the in-flight requests: id -> [path, host, cookie, sw]
    pc,         \* id -> position of the request in the middleware closure
    t,          \* id -> the local t: deadline budget in seconds (0: not yet set)
    elapsed,    \* id -> seconds since context.WithTimeout was called
    ctxErr,     \* id -> ctx.Err() of the derived deadline context
    cancels,    \* id -> number of calls of cancel()
    ctxDB,      \* id -> the store handle bound in r.Context()
    ctxSite,    \* id -> the tenant bound in r.Context() (NoSite: none)
    err,        \* id -> the local err of the tenant resolution
    s,          \* id -> the local s of the tenant resolution
    hostErr,    \* id -> what s.ByHost returned (err is overwritten at line 137)
    listed,     \* id -> result of sites.UnscopedList: [done, err2, sites]
    resp,       \* id -> what was written to w: [hdr, body]
    logged,     \* id -> entries written through zlog for the request
    nextCalls,  \* id -> number of calls of next.ServeHTTP
    hwrites,    \* id -> number of writes done by the downstream handler
    fctx,       \* filters: the request context [user, site]
    fout        \* filters: outcome of the last filter run

mwVars == <<prod, loadSite, dbSites, req, pc, t, elapsed, ctxErr, cancels, ctxDB,
            ctxSite, err, s, hostErr, listed, resp, logged, nextCalls, hwrites>>
fVars == <<fctx, fout>>
vars == <<mwVars, fVars>>

----------------------------------------------------------------------------
(* Bounds of the model. *)
MaxSites == 2       \* at most this many tenants in the store
MaxWrites == 1      \* the downstream handler writes at most this many times
MaxID == 1          \* user IDs and parent IDs range over 0..MaxID

(* Program constants. *)
DefaultTimeout == 3
RootTimeout == 11
AdminTimeout == 120
StatusOK == 200
StatusGatewayTimeout == 504
StatusBadRequest == 400
StatusInternal == 500
StatusSeeOther == 303
StatusForbidden == 403
StatusNotFound == 404

----------------------------------------------------------------------------
(* Strings the code compares by content are sequences of characters. *)
PathStatus == <<"/", "s", "t", "a", "t", "u", "s">>
PathRoot == <<"/">>
PathAdmin == <<"/", "a", "d", "m", "i", "n">>

Paths == { PathStatus, PathRoot, PathAdmin,
           PathAdmin \o <<"/", "x">>,
           PathAdmin \o <<"x">>,
           <<"/", "x">>,
           PathStatus \o <<"/">>,
           <<"/", "a", "d", "m">> }

Hosts == 1..(MaxSites + 1)

\* a comparison of the whole string where the prefix was meant
HasPrefixExact(str, prefix) == str = prefix

\* strings.HasPrefix
HasPrefix(str, prefix) ==
    /\ Len(str) >= Len(prefix)
    /\ SubSeq(str, 1, Len(prefix)) = prefix

\* lines 97-103: the budget selected for a path
Timeout(path) ==
    IF HasPrefix(path, PathAdmin) THEN AdminTimeout
    ELSE IF path = PathRoot THEN RootTimeout
    ELSE DefaultTimeout

----------------------------------------------------------------------------
(* Values. *)
NoSite == [id |-> 0, host |-> 0]
SiteOf(i) == [id |-> i, host |-> i]

NilErr == [kind |-> "nil", code |-> 0, arg |-> 0]
ErrNoRows == [kind |-> "sql.ErrNoRows", code |-> 0, arg |-> 0]
ErrDB == [kind |-> "db", code |-> 0, arg |-> 0]
ErrCtx == [kind |-> "context deadline exceeded", code |-> 0, arg |-> 0]
\* guru.Errorf(code, format, arg)
GuruErrorf(code, arg) == [kind |-> "guru", code |-> code, arg |-> arg]

PlainDB == [kind |-> "db", owner |-> 0]
ExplainDB(r) == [kind |-> "explain", owner |-> r]
NoDB == [kind |-> "none", owner |-> 0]

NotListed == [done |-> FALSE, err2 |-> NilErr, sites |-> <<>>]

Requests == [path : Paths, host : Hosts, cookie : BOOLEAN, sw : BOOLEAN]

----------------------------------------------------------------------------
(* The response writer w.  hdr holds every WriteHeader call in order; the   *)
(* first one commits the status, later ones change nothing on the wire.     *)
NoResponse == [ctype |-> "", hdr |-> <<>>, body |-> <<>>]

\* w.WriteHeader(code)
WriteHeader(w, by, code) ==
    [w EXCEPT !.hdr = Append(@, [by |-> by, code |-> code])]

\* w.Write(text): commits status 200 first when nothing was committed
Write(w, by, text, arg) ==
    LET c == IF w.hdr = <<>> THEN WriteHeader(w, by, StatusOK) ELSE w
    IN  [c EXCEPT !.body = Append(@, [by |-> by, text |-> text, arg |-> arg])]

\* statusWriter.Status(): the committed status code, 0 when none
Status(w) == IF w.hdr = <<>> THEN 0 ELSE w.hdr[1].code

\* cancel(): a context that is not yet done ends with reason Canceled
Cancel(e) == IF e = "nil" THEN "Canceled" ELSE e

\* ctx.Err() != nil where the reason was meant
DeadlineExceededAnyErr(e) == e # "nil"

\* line 108: ctx.Err() == context.DeadlineExceeded
DeadlineExceeded(e) == e = "DeadlineExceeded"

\* ok && ww.Status() == 0: a writer without Status() never gets the 504
NothingWrittenOkAnd(sw, w) == sw /\ Status(w) = 0

\* the check of Status() left out
NothingWrittenAlways(sw, w) == TRUE

\* line 109: ww, ok := w.(statusWriter); !ok || ww.Status() == 0
NothingWritten(sw, w) == ~sw \/ Status(w) = 0

\* lines 108-113: the check of the deferred function, after cancel()
TimeoutGuard(sw, w, e) ==
    IF DeadlineExceeded(e) /\ NothingWritten(sw, w)
    THEN Write(WriteHeader(w, "guard", StatusGatewayTimeout),
               "guard", "Server timed out", 0)
    ELSE w

\* err != nil where the not-found test was meant
IsNoRowsAnyErr(e) == e.kind # "nil"

\* zdb.ErrNoRows(err)
IsNoRows(e) == e.kind = "sql.ErrNoRows"

\* zhttp.ErrPage(w, r, err): the error's code, 500 for an error without one
ErrCode(e) == IF e.kind = "guru" THEN e.code ELSE StatusInternal
ErrPage(w, e) ==
    Write(WriteHeader(w, "errpage", ErrCode(e)), "errpage",
          IF e.kind = "guru" THEN "no site at this domain (%q)" ELSE "error",
          e.arg)

\* lines 79-83 and 89-92: the status document, keys in json.Marshal's order
StatusJSON == "{last_persisted_at,uptime,version}"
WriteStatus(w) ==
    Write(WriteHeader([w EXCEPT !.ctype = "application/json"], "status", StatusOK),
          "status", StatusJSON, 0)

----------------------------------------------------------------------------
(* The middleware closure of addctx, one action per step of a request r. *)
Ids == DOMAIN req

\* cancel kept in a variable shared by the requests: it ends every context
DeferredSharedCancel(r) ==
    /\ cancels' = [cancels EXCEPT ![r] = @ + 1]
    /\ ctxErr' = [q \in Ids |-> Cancel(ctxErr[q])]

\* the deferred function without its call of cancel()
DeferredNoCancel(r) ==
    /\ cancels' = cancels
    /\ ctxErr' = ctxErr

\* lines 106-114 run when the closure returns or unwinds
Deferred(r) ==
    /\ cancels' = [cancels EXCEPT ![r] = @ + 1]
    /\ ctxErr' = [ctxErr EXCEPT ![r] = Cancel(@)]

\* the status path misspelt with a trailing slash
IsStatusPathTypo(path) == path = PathStatus \o <<"/">>

\* line 78: r.URL.Path == "/status"
IsStatusPath(path) == path = PathStatus

\* lines 78-94 (json.Marshal of a map of strings cannot fail: lines 84-87 are dead)
StatusEndpoint(r) ==
    /\ pc[r] = "start"
    /\ IsStatusPath(req[r].path)
    /\ resp' = [resp EXCEPT ![r] = WriteStatus(@)]
    /\ pc' = [pc EXCEPT ![r] = "status"]
    /\ UNCHANGED <<prod, loadSite, dbSites, req, t, elapsed, ctxErr, cancels, ctxDB,
                   ctxSite, err, s, hostErr, listed, logged, nextCalls, hwrites>>
    /\ UNCHANGED fVars

\* lines 96-114: choose the budget, derive the deadline context, register the defer
EstablishDeadline(r) ==
    /\ pc[r] = "start"
    /\ ~IsStatusPath(req[r].path)
    /\ t' = [t EXCEPT ![r] = Timeout(req[r].path)]
    /\ pc' = [pc EXCEPT ![r] = "timeout"]
    /\ UNCHANGED <<prod, loadSite, dbSites, req, elapsed, ctxErr, cancels, ctxDB,
                   ctxSite, err, s, hostErr, listed, resp, logged, nextCalls, hwrites>>
    /\ UNCHANGED fVars

\* the test of cfg.Prod left out
WantExplainInProd(p, cookie) == cookie

\* lines 118-119: the explain wrapper is used outside production with the cookie
WantExplain(p, cookie) == ~p /\ cookie

\* lines 116-122
AddDatabase(r) ==
    /\ pc[r] = "timeout"
    /\ ctxDB' = [ctxDB EXCEPT ![r] =
                    IF WantExplain(prod, req[r].cookie) THEN ExplainDB(r) ELSE PlainDB]
    /\ pc' = [pc EXCEPT ![r] = "db"]
    /\ UNCHANGED <<prod, loadSite, dbSites, req, t, elapsed, ctxErr, cancels,
                   ctxSite, err, s, hostErr, listed, resp, logged, nextCalls, hwrites>>
    /\ UNCHANGED fVars

\* the tenant resolved whatever loadSite says
LoadsSiteAlways(l) == TRUE

\* line 125: if loadSite
LoadsSite(l) == l

\* the test of cfg.Prod left out
TriesFallbackAlways(p) == TRUE

\* line 132: the single-tenant special case is tried outside production only
TriesFallback(p) == ~p

\* The request is inside a call that takes time: a store query or the handler.
Blocking(r) ==
    \/ pc[r] = "db" /\ LoadsSite(loadSite)
    \/ pc[r] = "byhost" /\ TriesFallback(prod)
    \/ pc[r] = "serving"

\* a timer that answers 504 itself when it fires, as http.TimeoutHandler does
TickWritesTimeout(r) ==
    /\ Blocking(r)
    /\ ctxErr[r] = "nil"
    /\ elapsed[r] < t[r]
    /\ elapsed' = [elapsed EXCEPT ![r] = @ + 1]
    /\ ctxErr' = [ctxErr EXCEPT ![r] =
                    IF elapsed[r] + 1 >= t[r] THEN "DeadlineExceeded" ELSE @]
    /\ resp' = [resp EXCEPT ![r] =
                  IF elapsed[r] + 1 >= t[r]
                  THEN TimeoutGuard(req[r].sw, @, "DeadlineExceeded") ELSE @]
    /\ UNCHANGED <<prod, loadSite, dbSites, req, pc, t, cancels, ctxDB,
                   ctxSite, err, s, hostErr, listed, logged, nextCalls, hwrites>>
    /\ UNCHANGED fVars

\* One second passes; the timer of context.WithTimeout fires at the deadline.
Tick(r) ==
    /\ Blocking(r)
    /\ ctxErr[r] = "nil"
    /\ elapsed[r] < t[r]
    /\ elapsed' = [elapsed EXCEPT ![r] = @ + 1]
    /\ ctxErr' = [ctxErr EXCEPT ![r] =
                    IF elapsed[r] + 1 >= t[r] THEN "DeadlineExceeded" ELSE @]
    /\ UNCHANGED <<prod, loadSite, dbSites, req, pc, t, cancels, ctxDB,
                   ctxSite, err, s, hostErr, listed, resp, logged, nextCalls, hwrites>>
    /\ UNCHANGED fVars

\* What a store query under ctx can return besides its answer.
QueryErrors(e) == IF e = "nil" THEN {ErrDB} ELSE {ErrCtx}

\* the lookup run under a context that does not carry the deadline
ByHostResultsBackground(r) ==
    {ErrDB} \cup (IF req[r].host \in 1..dbSites THEN {NilErr} ELSE {ErrNoRows})

\* line 127: s.ByHost(r.Context(), r.Host)
ByHostResults(r) ==
    IF ctxErr[r] # "nil" THEN QueryErrors(ctxErr[r])
    ELSE QueryErrors(ctxErr[r]) \cup
         (IF req[r].host \in 1..dbSites THEN {NilErr} ELSE {ErrNoRows})

\* lines 126-127
ByHost(r) ==
    /\ pc[r] = "db"
    /\ LoadsSite(loadSite)
    /\ \E e \in ByHostResults(r) :
          /\ err' = [err EXCEPT ![r] = e]
          /\ hostErr' = [hostErr EXCEPT ![r] = e]
          /\ s' = [s EXCEPT ![r] = IF e = NilErr THEN SiteOf(req[r].host) ELSE NoSite]
    /\ pc' = [pc EXCEPT ![r] = "byhost"]
    /\ UNCHANGED <<prod, loadSite, dbSites, req, t, elapsed, ctxErr, cancels, ctxDB,
                   ctxSite, listed, resp, logged, nextCalls, hwrites>>
    /\ UNCHANGED fVars

\* line 134: sites.UnscopedList(r.Context())
ListResults(r) ==
    IF ctxErr[r] # "nil" THEN QueryErrors(ctxErr[r])
    ELSE QueryErrors(ctxErr[r]) \cup {NilErr}

\* len(sites) > 1 where == 1 was meant
SoleSiteSeveral(err2, sites) == err2 = NilErr /\ Len(sites) > 1

\* line 135: err2 == nil && len(sites) == 1
SoleSite(err2, sites) == err2 = NilErr /\ Len(sites) = 1

\* lines 132-139
DevFallback(r) ==
    /\ pc[r] = "byhost"
    /\ TriesFallback(prod)
    /\ \E err2 \in ListResults(r) :
          LET sites == IF err2 = NilErr THEN [i \in 1..dbSites |-> SiteOf(i)] ELSE <<>>
          IN  /\ listed' = [listed EXCEPT ![r] =
                              [done |-> TRUE, err2 |-> err2, sites |-> sites]]
              /\ IF SoleSite(err2, sites)
                 THEN /\ s' = [s EXCEPT ![r] = sites[1]]
                      /\ err' = [err EXCEPT ![r] = NilErr]
                 ELSE UNCHANGED <<s, err>>
    /\ pc' = [pc EXCEPT ![r] = "listed"]
    /\ UNCHANGED <<prod, loadSite, dbSites, req, t, elapsed, ctxErr, cancels, ctxDB,
                   ctxSite, hostErr, resp, logged, nextCalls, hwrites>>
    /\ UNCHANGED fVars

\* The tenant resolution has reached line 141.
Resolved(r) ==
    \/ pc[r] = "byhost" /\ ~TriesFallback(prod)
    \/ pc[r] = "listed"

\* the not-found error handed on as it is
PageErrorRaw(e, host) == e

\* lines 142-146: the error handed to the error page
PageError(e, host) ==
    IF IsNoRows(e) THEN GuruErrorf(StatusBadRequest, host) ELSE e

\* the return at line 149 left out: the error page, then on to the handler
ResolveFailNoReturn(r) ==
    /\ Resolved(r)
    /\ err[r] # NilErr
    /\ err' = [err EXCEPT ![r] = NilErr]
    /\ logged' = [logged EXCEPT ![r] = IF IsNoRows(err[r]) THEN @ ELSE Append(@, err[r])]
    /\ resp' = [resp EXCEPT ![r] = ErrPage(@, PageError(err[r], req[r].host))]
    /\ pc' = [pc EXCEPT ![r] = "listed"]
    /\ UNCHANGED <<prod, loadSite, dbSites, req, t, elapsed, ctxErr, cancels, ctxDB,
                   ctxSite, s, hostErr, listed, nextCalls, hwrites>>
    /\ UNCHANGED fVars

\* lines 141-150, then the deferred function
ResolveFail(r) ==
    /\ Resolved(r)
    /\ err[r] # NilErr
    /\ err' = [err EXCEPT ![r] = PageError(@, req[r].host)]
    /\ logged' = [logged EXCEPT ![r] = IF IsNoRows(err[r]) THEN @ ELSE Append(@, err[r])]
    /\ Deferred(r)
    /\ resp' = [resp EXCEPT ![r] =
                  TimeoutGuard(req[r].sw,
                               ErrPage(@, PageError(err[r], req[r].host)),
                               Cancel(ctxErr[r]))]
    /\ pc' = [pc EXCEPT ![r] = "aborted"]
    /\ UNCHANGED <<prod, loadSite, dbSites, req, t, elapsed, ctxDB,
                   ctxSite, s, hostErr, listed, nextCalls, hwrites>>
    /\ UNCHANGED fVars

\* line 152
WithSite(r) ==
    /\ Resolved(r)
    /\ err[r] = NilErr
    /\ ctxSite' = [ctxSite EXCEPT ![r] = s[r]]
    /\ pc' = [pc EXCEPT ![r] = "site"]
    /\ UNCHANGED <<prod, loadSite, dbSites, req, t, elapsed, ctxErr, cancels, ctxDB,
                   err, s, hostErr, listed, resp, logged, nextCalls, hwrites>>
    /\ UNCHANGED fVars

\* line 155: next.ServeHTTP(w, r) is entered
ServeHTTP(r) ==
    /\ \/ pc[r] = "site"
       \/ pc[r] = "db" /\ ~LoadsSite(loadSite)
    /\ nextCalls' = [nextCalls EXCEPT ![r] = @ + 1]
    /\ pc' = [pc EXCEPT ![r] = "serving"]
    /\ UNCHANGED <<prod, loadSite, dbSites, req, t, elapsed, ctxErr, cancels, ctxDB,
                   ctxSite, err, s, hostErr, listed, resp, logged, hwrites>>
    /\ UNCHANGED fVars

\* Status codes the downstream handler answers with.
HandlerCodes == {StatusOK, StatusNotFound}

\* The downstream handler writes a response while it runs.
HandlerWrite(r) ==
    /\ pc[r] = "serving"
    /\ hwrites[r] < MaxWrites
    /\ \E code \in HandlerCodes :
          resp' = [resp EXCEPT ![r] =
                     Write(WriteHeader(@, "handler", code), "handler", "page", 0)]
    /\ hwrites' = [hwrites EXCEPT ![r] = @ + 1]
    /\ UNCHANGED <<prod, loadSite, dbSites, req, pc, t, elapsed, ctxErr, cancels, ctxDB,
                   ctxSite, err, s, hostErr, listed, logged, nextCalls>>
    /\ UNCHANGED fVars

\* line 155 returns, then the deferred function
HandlerReturn(r) ==
    /\ pc[r] = "serving"
    /\ Deferred(r)
    /\ resp' = [resp EXCEPT ![r] = TimeoutGuard(req[r].sw, @, Cancel(ctxErr[r]))]
    /\ pc' = [pc EXCEPT ![r] = "returned"]
    /\ UNCHANGED <<prod, loadSite, dbSites, req, t, elapsed, ctxDB,
                   ctxSite, err, s, hostErr, listed, logged, nextCalls, hwrites>>
    /\ UNCHANGED fVars

\* the downstream handler panics: the deferred function runs while unwinding
HandlerPanic(r) ==
    /\ pc[r] = "serving"
    /\ Deferred(r)
    /\ resp' = [resp EXCEPT ![r] = TimeoutGuard(req[r].sw, @, Cancel(ctxErr[r]))]
    /\ pc' = [pc EXCEPT ![r] = "panicked"]
    /\ UNCHANGED <<prod, loadSite, dbSites, req, t, elapsed, ctxDB,
                   ctxSite, err, s, hostErr, listed, logged, nextCalls, hwrites>>
    /\ UNCHANGED fVars

----------------------------------------------------------------------------
(* The authorization filters.  fctx is the request context a filter reads:   *)
(* user is goatcounter.GetUser, the rest are fields of Site(r.Context()).   *)
(* A pointer is [present, ID]: nil has present = FALSE.                     *)
Nil == [present |-> FALSE, ID |-> 0]
Ptr(i) == [present |-> TRUE, ID |-> i]
Pointers == {Nil} \cup {Ptr(i) : i \in 0..MaxID}

FilterContexts == [user : Pointers, public : BOOLEAN, parent : Pointers, admin : BOOLEAN]

\* the value a filter function returns: nil, or an error with a code
Pass == [code |-> 0, to |-> "", flash |-> "", log |-> ""]

\* lines 26-29
Redirect == [code |-> StatusSeeOther, to |-> "/user/new", flash |-> "Need to log in",
             log |-> ""]

\* the test of the ID left out
AuthenticatedAnyUser(u) == u.present

\* lines 33 and 41: u != nil && u.ID > 0
Authenticated(u) == u.present /\ u.ID > 0

\* lines 31-37
LoggedIn(c) == IF Authenticated(c.user) THEN Pass ELSE Redirect

\* && where || was meant
AllowedOrPublicBoth(c) == Authenticated(c.user) /\ c.public

\* line 41
AllowedOrPublic(c) == Authenticated(c.user) \/ c.public

\* lines 39-45
LoggedInOrPublic(c) == IF AllowedOrPublic(c) THEN Pass ELSE Redirect

\* the test of *Parent == 0 left out
IsRootSiteNilOnly(c) == ~c.parent.present

\* lines 48-49: Parent == nil || *Parent == 0
IsRootSite(c) == ~c.parent.present \/ c.parent.ID = 0

\* lines 47-54
NoSubSites(c) ==
    IF IsRootSite(c) THEN Pass
    ELSE [code |-> StatusForbidden, to |-> "", flash |-> "", log |-> "noSubSites"]

\* lines 56-61
AdminOnly(c) ==
    IF c.admin THEN Pass
    ELSE [code |-> StatusNotFound, to |-> "", flash |-> "", log |-> ""]

Filters == {"loggedIn", "loggedInOrPublic", "noSubSites", "adminOnly"}

\* a filter that resets the principal it has read
RunFilterResetsUser(name, result) ==
    /\ fctx \in FilterContexts
    /\ fout' = [filter |-> name, result |-> result]
    /\ fctx' = [fctx EXCEPT !.user = Nil]
    /\ UNCHANGED mwVars

\* auth.Filter(f): f reads the request context and returns nil or an error
RunFilter(name, result) ==
    /\ fctx \in FilterContexts
    /\ fout' = [filter |-> name, result |-> result]
    /\ UNCHANGED fctx
    /\ UNCHANGED mwVars

RunLoggedIn == RunFilter("loggedIn", LoggedIn(fctx))
RunLoggedInOrPublic == RunFilter("loggedInOrPublic", LoggedInOrPublic(fctx))
RunNoSubSites == RunFilter("noSubSites", NoSubSites(fctx))
RunAdminOnly == RunFilter("adminOnly", AdminOnly(fctx))

NoOutcome == [filter |-> "none", result |-> Pass]

(* The filters are idle while the middleware is explored, and conversely. *)
FilterIdle ==
    /\ fctx = [user |-> Nil, public |-> FALSE, parent |-> Nil, admin |-> FALSE]
    /\ fout = NoOutcome

FilterInit ==
    /\ fctx \in FilterContexts
    /\ fout = NoOutcome

MwInit(n) ==
    /\ prod \in BOOLEAN
    /\ loadSite \in BOOLEAN
    /\ dbSites \in 0..MaxSites
    /\ req \in [1..n -> Requests]
    /\ pc = [r \in 1..n |-> "start"]
    /\ t = [r \in 1..n |-> 0]
    /\ elapsed = [r \in 1..n |-> 0]
    /\ ctxErr = [r \in 1..n |-> "nil"]
    /\ cancels = [r \in 1..n |-> 0]
    /\ ctxDB = [r \in 1..n |-> NoDB]
    /\ ctxSite = [r \in 1..n |-> NoSite]
    /\ err = [r \in 1..n |-> NilErr]
    /\ s = [r \in 1..n |-> NoSite]
    /\ hostErr = [r \in 1..n |-> NilErr]
    /\ listed = [r \in 1..n |-> NotListed]
    /\ resp = [r \in 1..n |-> NoResponse]
    /\ logged = [r \in 1..n |-> <<>>]
    /\ nextCalls = [r \in 1..n |-> 0]
    /\ hwrites = [r \in 1..n |-> 0]

Init == MwInit(1) /\ FilterIdle

Next ==
    \/ \E r \in Ids : StatusEndpoint(r)
    \/ \E r \in Ids : EstablishDeadline(r)
    \/ \E r \in Ids : AddDatabase(r)
    \/ \E r \in Ids : Tick(r)
    \/ \E r \in Ids : ByHost(r)
    \/ \E r \in Ids : DevFallback(r)
    \/ \E r \in Ids : ResolveFail(r)
    \/ \E r \in Ids : WithSite(r)
    \/ \E r \in Ids : ServeHTTP(r)
    \/ \E r \in Ids : HandlerWrite(r)
    \/ \E r \in Ids : HandlerReturn(r)
    \/ \E r \in Ids : HandlerPanic(r)

Spec == Init /\ [][Next]_vars

(* Several requests in flight through the same middleware: one goroutine   *)
(* per request, their steps interleaved in every order.                     *)
ConcRequests ==
    [path : {PathStatus, <<"/", "x">>}, host : {MaxSites + 1},
     cookie : BOOLEAN, sw : BOOLEAN]
ConcIds == {1, 2}

InitConc ==
    /\ MwInit(Cardinality(ConcIds))
    /\ dbSites = 1
    /\ \A r \in Ids : req[r] \in ConcRequests
    /\ FilterIdle

SpecConc == InitConc /\ [][Next]_vars

(* The filters alone, over every request context. *)
InitFilter == MwInit(0) /\ FilterInit

NextFilter ==
    \/ RunLoggedIn
    \/ RunLoggedInOrPublic
    \/ RunNoSubSites
    \/ RunAdminOnly

SpecFilter == InitFilter /\ [][NextFilter]_vars

----------------------------------------------------------------------------
(* Properties of the timeout guard. *)
Left(r) == pc[r] \in {"returned", "panicked", "aborted"}
WroteHeader(r, who) == \E i \in 1..Len(resp[r].hdr) : resp[r].hdr[i].by = who
WroteBody(r, who) == \E i \in 1..Len(resp[r].body) : resp[r].body[i].by = who
GuardWrote(r) == WroteHeader(r, "guard") \/ WroteBody(r, "guard")
Committed(r) == WroteHeader(r, "handler") \/ WroteHeader(r, "errpage")
TimeoutResponse ==
    [ctype |-> "",
     hdr |-> <<[by |-> "guard", code |-> 504]>>,
     body |-> <<[by |-> "guard", text |-> "Server timed out", arg |-> 0]>>]

\* C1: a request that left the middleware with its context ended by the deadline
\* and with no status written by the handler or the error page carries exactly
\* the response 504 "Server timed out".
C1_TimeoutGives504 ==
    \A r \in Ids :
        (Left(r) /\ ctxErr[r] = "DeadlineExceeded" /\ ~Committed(r))
            => resp[r] = TimeoutResponse

C1_Witness ==
    \E r \in Ids :
        /\ pc[r] = "returned"
        /\ ctxErr[r] = "DeadlineExceeded"
        /\ ~req[r].sw
        /\ resp[r] = TimeoutResponse

C3_NoTimeoutBeforeDeadline ==
    \A r \in Ids :
        (pc[r] = "returned" /\ elapsed[r] < t[r]) => ~GuardWrote(r)

C3_Witness ==
    \E r \in Ids :
        /\ pc[r] = "returned"
        /\ elapsed[r] < t[r]
        /\ elapsed[r] > 0
        /\ t[r] = 120
        /\ resp[r] = NoResponse

\* C4: once the budget of a request is set it is 120 for a path that starts
\* with /admin, 11 for the path /, 3 for any other path, and every request that
\* is not a status request and got past the first step has a budget.
AdminPrefixed(path) ==
    /\ Len(path) >= 6
    /\ \A i \in 1..6 : path[i] = <<"/", "a", "d", "m", "i", "n">>[i]
C4_BudgetByPath ==
    \A r \in Ids :
        /\ pc[r] \notin {"start", "status"} => t[r] # 0
        /\ t[r] # 0 =>
              /\ AdminPrefixed(req[r].path) => t[r] = 120
              /\ req[r].path = <<"/">> => t[r] = 11
              /\ (~AdminPrefixed(req[r].path) /\ req[r].path # <<"/">>) => t[r] = 3

C4_Witness ==
    \E r \in Ids :
        /\ req[r].path = <<"/", "a", "d", "m", "i", "n", "/", "x">>
        /\ t[r] = 120

----------------------------------------------------------------------------
(* Properties of the status probe and of the tenant resolution. *)
StatusResponse ==
    [ctype |-> "application/json",
     hdr |-> <<[by |-> "status", code |-> 200]>>,
     body |-> <<[by |-> "status", text |-> "{last_persisted_at,uptime,version}",
                 arg |-> 0]>>]
Untouched(r) ==
    /\ t[r] = 0
    /\ cancels[r] = 0
    /\ ctxErr[r] = "nil"
    /\ ctxDB[r].kind = "none"
    /\ ctxSite[r].id = 0
    /\ ~listed[r].done
    /\ hostErr[r].kind = "nil"
    /\ logged[r] = <<>>
    /\ nextCalls[r] = 0

\* C5: a request for /status is either not yet handled or answered, and when
\* answered it has no deadline, no store handle, no tenant lookup or listing,
\* no call of the downstream handler, and the one 200 JSON response with the
\* keys uptime, version and last_persisted_at, for every host, mode, tenant
\* count and setting of tenant-loading.
C5_StatusFirst ==
    \A r \in Ids :
        req[r].path = <<"/", "s", "t", "a", "t", "u", "s">> =>
            /\ pc[r] \in {"start", "status"}
            /\ Untouched(r)
            /\ pc[r] = "status" => resp[r] = StatusResponse

C5_Witness ==
    \E r \in Ids :
        /\ pc[r] = "status"
        /\ resp[r] = StatusResponse
        /\ loadSite
        /\ prod
        /\ req[r].host > dbSites

Invoked(r) == pc[r] \in {"serving", "returned", "panicked"}

C7_ProdNotFound400 ==
    \A r \in Ids :
        (prod /\ loadSite /\ hostErr[r].kind = "sql.ErrNoRows")
            => /\ pc[r] \in {"byhost", "aborted"}
               /\ ctxSite[r].id = 0
               /\ nextCalls[r] = 0
               /\ pc[r] = "aborted" =>
                     /\ Status(resp[r]) = 400
                     /\ Len(resp[r].body) = 1
                     /\ resp[r].body[1].text = "no site at this domain (%q)"
                     /\ resp[r].body[1].arg = req[r].host

C7_Witness ==
    \E r \in Ids :
        /\ prod
        /\ dbSites = 1
        /\ hostErr[r].kind = "sql.ErrNoRows"
        /\ pc[r] = "aborted"
        /\ Status(resp[r]) = 400

\* C8: a request whose tenant resolution ended with an error is aborted by the
\* next step of the middleware; an aborted request carries the error page (400
\* when the lookup found no tenant, 500 for any other error), has no tenant in
\* its context, and the downstream handler was never called for it.
C8_AbortedState ==
    \A r \in Ids :
        pc[r] = "aborted" =>
            /\ WroteHeader(r, "errpage")
            /\ WroteBody(r, "errpage")
            /\ Status(resp[r]) = IF hostErr[r].kind = "sql.ErrNoRows" THEN 400 ELSE 500
            /\ ctxSite[r].id = 0
            /\ nextCalls[r] = 0
C8_AbortStep ==
    \A r \in Ids :
        (Resolved(r) /\ err[r].kind # "nil" /\ pc'[r] # pc[r]) => pc'[r] = "aborted"
C8_ResolutionFailureAborts == [][C8_AbortStep]_vars /\ []C8_AbortedState

C8_Witness ==
    \E r \in Ids :
        /\ pc[r] = "aborted"
        /\ ~prod
        /\ hostErr[r].kind = "sql.ErrNoRows"
        /\ listed[r].done
        /\ Status(resp[r]) = 400

InternalLookupError(r) == hostErr[r].kind \notin {"nil", "sql.ErrNoRows"}

\* C9 as stated: in every mode and for every tenant count, a host lookup that
\* failed with an error other than not-found never leads to a resolved tenant.
C9_NeverSwallowed ==
    \A r \in Ids :
        InternalLookupError(r) => (ctxSite[r].id = 0 /\ ~Invoked(r))

\* C9 amended: a host lookup that failed with an error other than not-found
\* leads to a log entry and an aborted request, never to a resolved tenant, in
\* production mode, and outside production whenever the unscoped listing
\* failed or did not return exactly one tenant.
C9_LoggedUnlessFallback ==
    \A r \in Ids :
        (InternalLookupError(r) /\
            (prod \/ (listed[r].done /\
                        (listed[r].err2.kind # "nil" \/ Len(listed[r].sites) # 1))))
            => /\ pc[r] \in {"byhost", "listed", "aborted"}
               /\ ctxSite[r].id = 0
               /\ nextCalls[r] = 0
               /\ pc[r] = "aborted" =>
                     /\ logged[r] = <<hostErr[r]>>
                     /\ Status(resp[r]) = 500

C9_Witness ==
    \E r \in Ids :
        /\ ~prod
        /\ hostErr[r].kind = "db"
        /\ listed[r].err2.kind = "nil"
        /\ Len(listed[r].sites) = 2
        /\ pc[r] = "aborted"
        /\ Len(logged[r]) = 1

----------------------------------------------------------------------------
(* Properties of the filters. *)
Unauthenticated(c) == ~c.user.present \/ c.user.ID = 0

\* C10: for a request without a principal, or with a principal whose ID is
\* zero, loggedInOrPublic passes exactly when the tenant's public flag is set,
\* and otherwise answers 303 to the sign-in path with the flash notice.
C10_OrPublic ==
    (fout.filter = "loggedInOrPublic" /\ Unauthenticated(fctx)) =>
        /\ fout.result.code = 0 <=> fctx.public
        /\ ~fctx.public =>
              /\ fout.result.code = 303
              /\ fout.result.to = "/user/new"
              /\ fout.result.flash = "Need to log in"

C10_Witness ==
    /\ fout.filter = "loggedInOrPublic"
    /\ fctx.user = [present |-> TRUE, ID |-> 0]
    /\ fctx.public
    /\ fout.result.code = 0


\* C11: noSubSites answers 403 exactly when the tenant's parent reference is
\* present and not zero, and passes when it is absent or zero.
C11_NoSubSites ==
    fout.filter = "noSubSites" =>
        /\ fout.result.code = 403 <=> (fctx.parent.present /\ fctx.parent.ID # 0)
        /\ fout.result.code = 0 <=> (~fctx.parent.present \/ fctx.parent.ID = 0)
        /\ fout.result.code \in {0, 403}

C11_Witness ==
    /\ fout.filter = "noSubSites"
    /\ fctx.parent = [present |-> TRUE, ID |-> 0]
    /\ fout.result.code = 0

\* C12: loggedIn passes exactly when a principal exists and its ID is not
\* zero; for no principal or an ID of zero it answers 303 to the sign-in path
\* with the flash notice set.
C12_LoggedIn ==
    fout.filter = "loggedIn" =>
        /\ fout.result.code = 0 <=> (fctx.user.present /\ fctx.user.ID # 0)
        /\ (~fctx.user.present \/ fctx.user.ID = 0) =>
              /\ fout.result.code = 303
              /\ fout.result.to = "/user/new"
              /\ fout.result.flash = "Need to log in"

C12_Witness ==
    /\ fout.filter = "loggedIn"
    /\ fctx.user = [present |-> TRUE, ID |-> 0]
    /\ fout.result.code = 303


----------------------------------------------------------------------------
(* Properties of the request's life cycle. *)
TimerHeld(r) == t[r] # 0 /\ ctxErr[r] = "nil"

\* C13: cancel() has been called exactly once for every request that left the
\* middleware by the handler's return, by the abort after a failed tenant
\* resolution or by a panic of the handler, and never before that; a request
\* that has left holds no deadline timer.
C13_CancelOnce ==
    \A r \in Ids :
        /\ Left(r) => (cancels[r] = 1 /\ ~TimerHeld(r))
        /\ ~Left(r) => cancels[r] = 0

C13_Witness ==
    \E r \in Ids :
        /\ pc[r] = "panicked"
        /\ elapsed[r] > 0
        /\ ctxErr[r] = "Canceled"
        /\ cancels[r] = 1


\* C14: the steps of a request that is not a status request occur in the
\* order deadline, store handle (plain or wrapped), tenant resolution,
\* downstream handler: each step is taken only from the position the previous
\* one leaves, the resolution and the handler see a context with the deadline
\* and a store handle, and a host lookup made after the deadline has fired
\* fails with the context's error.
C14_Context ==
    \A r \in Ids :
        /\ ctxDB[r].kind # "none" => t[r] # 0
        /\ pc[r] \in {"byhost", "listed", "site", "aborted"} =>
              (t[r] # 0 /\ ctxDB[r].kind # "none")
        /\ Invoked(r) =>
              /\ t[r] # 0
              /\ ctxDB[r].kind # "none"
              /\ loadSite => ctxSite[r].id # 0
C14_Step ==
    \A r \in Ids :
        /\ t'[r] # t[r] => (pc[r] = "start" /\ pc'[r] = "timeout")
        /\ ctxDB'[r] # ctxDB[r] => (pc[r] = "timeout" /\ pc'[r] = "db")
        /\ (pc[r] # "byhost" /\ pc'[r] = "byhost") => pc[r] = "db"
        /\ listed'[r] # listed[r] => (pc[r] = "byhost" /\ pc'[r] = "listed")
        /\ ctxSite'[r] # ctxSite[r] => (pc[r] \in {"byhost", "listed"} /\ pc'[r] = "site")
        /\ nextCalls'[r] # nextCalls[r] =>
              /\ pc[r] = (IF loadSite THEN "site" ELSE "db")
              /\ pc'[r] = "serving"
        /\ (pc[r] = "db" /\ pc'[r] = "byhost" /\ ctxErr[r] = "DeadlineExceeded") =>
              hostErr'[r].kind = "context deadline exceeded"
C14_Order == [][C14_Step]_vars /\ []C14_Context

C14_Witness ==
    \E r \in Ids :
        /\ pc[r] = "serving"
        /\ loadSite
        /\ t[r] = 11
        /\ ctxDB[r].kind = "explain"
        /\ ctxSite[r].id = 2


\* C15: with tenant-loading disabled no request is ever in or past the tenant
\* resolution: no host lookup, no listing, no tenant in the context, no error
\* page; from the bound store handle the only step is the call of the
\* downstream handler, which runs with the store handle bound, for every host
\* and in every mode.
C15_NoResolutionWithoutLoadSite ==
    ~loadSite =>
        \A r \in Ids :
            /\ pc[r] \in {"start", "status", "timeout", "db", "serving",
                          "returned", "panicked"}
            /\ hostErr[r].kind = "nil"
            /\ err[r].kind = "nil"
            /\ s[r].id = 0
            /\ ~listed[r].done
            /\ ctxSite[r].id = 0
            /\ logged[r] = <<>>
            /\ ~WroteHeader(r, "errpage")
            /\ pc[r] = "db" => ENABLED ServeHTTP(r)
            /\ Invoked(r) => (ctxDB[r].kind # "none" /\ nextCalls[r] = 1)

C15_Witness ==
    \E r \in Ids :
        /\ ~loadSite
        /\ prod
        /\ req[r].host > dbSites
        /\ pc[r] = "returned"
        /\ ctxDB[r].kind = "db"
        /\ ctxSite[r].id = 0


----------------------------------------------------------------------------
(* Properties of requests in flight together. *)

\* C16: the store handle bound in a request's context is the explain wrapper
\* exactly when the process runs outside production and the request carries
\* the debug-explain cookie; in production it is the plain handle whatever
\* the cookie; a wrapper is bound only in the context of the request it was
\* made for.
C16_ExplainWrapper ==
    \A r \in Ids :
        ctxDB[r].kind # "none" =>
            /\ ctxDB[r].kind = "explain" <=> (~prod /\ req[r].cookie)
            /\ prod => ctxDB[r] = [kind |-> "db", owner |-> 0]
            /\ ctxDB[r].kind = "explain" => ctxDB[r].owner = r
            /\ \A q \in Ids \ {r} : ctxDB[q].kind = "explain" => ctxDB[q] # ctxDB[r]

C16_Witness ==
    \E r, q \in Ids :
        /\ r # q
        /\ ctxDB[r].kind = "explain"
        /\ ctxDB[q].kind = "explain"
        /\ pc[r] = "serving"
        /\ pc[q] = "serving"

PerRequest(r) ==
    <<req[r], pc[r], t[r], elapsed[r], ctxErr[r], cancels[r], ctxDB[r], ctxSite[r],
      err[r], s[r], hostErr[r], listed[r], resp[r], logged[r], nextCalls[r], hwrites[r]>>

\* C17: with two requests in flight every step changes the state of one
\* request only and leaves the shared configuration alone; a context ends
\* with DeadlineExceeded only when the request's own budget has elapsed, ends
\* with Canceled only when the request itself has left the middleware, and a
\* request carries the 504 only when its own budget has elapsed.
C17_Own ==
    \A r \in Ids :
        /\ ctxErr[r] = "DeadlineExceeded" => (t[r] # 0 /\ elapsed[r] >= t[r])
        /\ ctxErr[r] = "Canceled" => (Left(r) /\ cancels[r] = 1)
        /\ GuardWrote(r) => (Left(r) /\ t[r] # 0 /\ elapsed[r] >= t[r])
C17_Step ==
    /\ <<prod, loadSite, dbSites>>' = <<prod, loadSite, dbSites>>
    /\ \A r, q \in Ids :
          r # q => (PerRequest(r)' = PerRequest(r) \/ PerRequest(q)' = PerRequest(q))
C17_Isolation == [][C17_Step]_vars /\ []C17_Own

C17_Witness ==
    \E r, q \in Ids :
        /\ r # q
        /\ pc[r] = "returned"
        /\ GuardWrote(r)
        /\ pc[q] = "serving"
        /\ elapsed[q] > 0
        /\ ctxErr[q] = "nil"


----------------------------------------------------------------------------
(* Further properties of the filters, the guard and the outcome. *)

\* C18: no run of loggedIn, loggedInOrPublic, noSubSites or adminOnly, whether
\* it passes or aborts, changes the tenant or the principal of the request
\* context.
C18_FiltersReadOnly == [][fctx' = fctx]_vars

C18_Witness ==
    /\ fout.filter = "adminOnly"
    /\ fout.result.code = 404
    /\ fctx.user = [present |-> TRUE, ID |-> 1]
    /\ fctx.parent = [present |-> TRUE, ID |-> 1]

GuardHeaders(r) == {i \in 1..Len(resp[r].hdr) : resp[r].hdr[i].by = "guard"}
GuardBodies(r) == {i \in 1..Len(resp[r].body) : resp[r].body[i].by = "guard"}

\* C19: the 504 and the timeout body are on a response only after the request
\* has left the middleware, so never while the downstream handler is running,
\* also not once the deadline has fired under a handler that has not returned;
\* they are written at most once per request.
C19_GuardOnlyAfterHandler ==
    \A r \in Ids :
        /\ ~Left(r) => ~GuardWrote(r)
        /\ Cardinality(GuardHeaders(r)) <= 1
        /\ Cardinality(GuardBodies(r)) <= 1

C19_Witness ==
    \E r \in Ids :
        /\ pc[r] = "serving"
        /\ ctxErr[r] = "DeadlineExceeded"
        /\ elapsed[r] = 120
        /\ resp[r] = NoResponse


Finished(r) == pc[r] \in {"status", "aborted", "returned", "panicked"}
Outcomes(r) ==
    (IF WroteHeader(r, "status") THEN 1 ELSE 0)
    + (IF WroteHeader(r, "errpage") THEN 1 ELSE 0)
    + (IF nextCalls[r] > 0 THEN 1 ELSE 0)

\* C20: of the three outcomes (status response written, error page of the
\* tenant resolution written, downstream handler called) a request never has
\* more than one, a request that has left the middleware has exactly one, and a
\* request that has not left can take a step; the handler is called at most
\* once, and never once the middleware has written the status response or the
\* error page.
C20_State ==
    \A r \in Ids :
        /\ nextCalls[r] <= 1
        /\ Outcomes(r) <= 1
        /\ Finished(r) => Outcomes(r) = 1
        /\ ~Finished(r) => ENABLED Next
C20_Step ==
    \A r \in Ids :
        (WroteHeader(r, "status") \/ WroteHeader(r, "errpage"))
            => nextCalls'[r] = nextCalls[r]
C20_OneOutcome == [][C20_Step]_vars /\ []C20_State

C20_Witness ==
    \E r \in Ids :
        /\ pc[r] = "aborted"
        /\ WroteHeader(r, "errpage")
        /\ WroteHeader(r, "guard")
        /\ nextCalls[r] = 0

====
